---- MODULE Spec2Model ----
(***************************************************************************)
(* A model of presidio_evaluator/data_objects.py: Span, SimpleToken and    *)
(* InputSample, with the tag translation and scheme conversion helpers.    *)
(*                                                                         *)
(* A Python str is a sequence of one-character strings, so that len(),     *)
(* indexing, slicing and concatenation are what the code computes.  A      *)
(* Python object is a record carrying its class in the field py_type; a    *)
(* plain dict is a record (a function from its keys).                      *)
(***************************************************************************)
EXTENDS Integers, Sequences, FiniteSets, TLC

VARIABLES
    call,       \* the frame of the latest call: its operation, arguments, result
    sample,     \* the InputSample under test (None before it is built)
    record,     \* the dict handed to InputSample.from_json (mutable, caller-owned)
    persisted,  \* the record as it was read from storage (never written)
    out,        \* the dict returned by the latest InputSample.to_dict
    loads,      \* how many times from_json was called on `record`
    spacy_model \* the SpacyModel whose predict is called (None without one)

vars == <<call, sample, record, persisted, out, loads, spacy_model>>

---------------------------------------------------------------------------
(* Bounds of the model.                                                    *)

MaxTagLen == 3      \* longest tag handed to translate_tag on its own
MaxPos == 4         \* largest character offset of a span
MaxTokens == 2      \* most tokens (and tags) of a sample
MaxSpans == 1       \* most spans of a sample
MaxLoads == 2       \* most calls of from_json on one record
MaxPredicts == 3    \* most calls of predict on one sample
MaxDocLen == 1      \* most tokens of the document the spaCy pipeline returns

---------------------------------------------------------------------------
(* Python values.                                                          *)

None == [py_type |-> "NoneType"]

\* An exception that left a str-returning function, as a value no str equals.
IndexError == <<"IndexError">>
Exceptions == {IndexError}

\* seq[i] of Python (0-based): the element, or "IndexError" when out of range.
Index(seq, i) == IF 0 <= i /\ i < Len(seq) THEN seq[i + 1] ELSE "IndexError"

\* seq[n:] and seq[:n] of Python, for n >= 0: slices never raise.
SliceFrom(seq, n) == SubSeq(seq, n + 1, Len(seq))
SliceTo(seq, n) == SubSeq(seq, 1, IF n < Len(seq) THEN n ELSE Len(seq))

\* The string literals of the source.
O == <<"O">>
ORG == <<"O", "R", "G">>
NORP == <<"N", "O", "R", "P">>
GPE == <<"G", "P", "E">>
LOC == <<"L", "O", "C">>
FAC == <<"F", "A", "C">>
PERSON == <<"P", "E", "R", "S", "O", "N">>
LOCATION == <<"L", "O", "C", "A", "T", "I", "O", "N">>
ORGANIZATION == <<"O", "R", "G", "A", "N", "I", "Z", "A", "T", "I", "O", "N">>
COUNTRY == <<"C", "O", "U", "N", "T", "R", "Y">>
CITY == <<"C", "I", "T", "Y">>
FIRST_NAME == <<"F", "I", "R", "S", "T", "_", "N", "A", "M", "E">>
LAST_NAME == <<"L", "A", "S", "T", "_", "N", "A", "M", "E">>
NATION_MAN == <<"N", "A", "T", "I", "O", "N", "_", "M", "A", "N">>
NATION_WOMAN == <<"N", "A", "T", "I", "O", "N", "_", "W", "O", "M", "A", "N">>
NATION_PLURAL == <<"N", "A", "T", "I", "O", "N", "_", "P", "L", "U", "R", "A", "L">>
NATIONALITY == <<"N", "A", "T", "I", "O", "N", "A", "L", "I", "T", "Y">>

SPACY_PRESIDIO_ENTITIES ==
    (ORG :> ORGANIZATION) @@ (NORP :> ORGANIZATION) @@ (GPE :> LOCATION)
    @@ (LOC :> LOCATION) @@ (FAC :> LOCATION) @@ (PERSON :> PERSON)
    @@ (LOCATION :> LOCATION) @@ (ORGANIZATION :> ORGANIZATION)

\* The bug of a dictionary without its identity entries ("GPE" and "ORG"
\* are values, and no keys).
PRESIDIO_SPACY_ENTITIES_no_identity ==
    (ORGANIZATION :> ORG) @@ (COUNTRY :> GPE) @@ (CITY :> GPE)
    @@ (LOCATION :> GPE) @@ (PERSON :> PERSON) @@ (FIRST_NAME :> PERSON)
    @@ (LAST_NAME :> PERSON) @@ (NATION_MAN :> GPE) @@ (NATION_WOMAN :> GPE)
    @@ (NATION_PLURAL :> GPE) @@ (NATIONALITY :> GPE)

PRESIDIO_SPACY_ENTITIES ==
    (ORGANIZATION :> ORG) @@ (COUNTRY :> GPE) @@ (CITY :> GPE)
    @@ (LOCATION :> GPE) @@ (PERSON :> PERSON) @@ (FIRST_NAME :> PERSON)
    @@ (LAST_NAME :> PERSON) @@ (NATION_MAN :> GPE) @@ (NATION_WOMAN :> GPE)
    @@ (NATION_PLURAL :> GPE) @@ (NATIONALITY :> GPE) @@ (GPE :> GPE)
    @@ (ORG :> ORG)

---------------------------------------------------------------------------
(* InputSample.translate_tag (static).                                     *)

\* The bug of taking every tag for a prefixed one: no test of its shape.
translate_tag_always_prefixed(tag, dictionary, ignore_unknown) ==
    LET no_prefix == SliceFrom(tag, 2)
    IN  IF no_prefix \in DOMAIN dictionary
        THEN SliceTo(tag, 2) \o dictionary[no_prefix]
        ELSE IF ignore_unknown THEN O
        ELSE tag

\* The bug of stripping two characters from every tag with a "-" in second
\* place, two-character tags included (len(tag) >= 2).
translate_tag_short_prefix(tag, dictionary, ignore_unknown) ==
    LET second == IF Len(tag) >= 2 THEN Index(tag, 1) ELSE "not evaluated"
        has_prefix == second = "-"
        no_prefix == IF has_prefix THEN SliceFrom(tag, 2) ELSE tag
    IN  IF second = "IndexError" THEN IndexError
        ELSE IF no_prefix \in DOMAIN dictionary
        THEN (IF has_prefix
              THEN SliceTo(tag, 2) \o dictionary[no_prefix]
              ELSE dictionary[no_prefix])
        ELSE IF ignore_unknown THEN O
        ELSE tag

\* `second` is tag[1], evaluated only when len(tag) > 2 holds (`and`
\* short-circuits); an IndexError there would leave the function.
translate_tag(tag, dictionary, ignore_unknown) ==
    LET second == IF Len(tag) > 2 THEN Index(tag, 1) ELSE "not evaluated"
        has_prefix == second = "-"
        no_prefix == IF has_prefix THEN SliceFrom(tag, 2) ELSE tag
    IN  IF second = "IndexError" THEN IndexError
        ELSE IF no_prefix \in DOMAIN dictionary
        THEN (IF has_prefix
              THEN SliceTo(tag, 2) \o dictionary[no_prefix]
              ELSE dictionary[no_prefix])
        ELSE IF ignore_unknown THEN O
        ELSE tag

---------------------------------------------------------------------------
(* The tags and dictionaries handed to translate_tag on its own.           *)

TagChars == {"O", "-", "B", "P"}

RECURSIVE StrsOfLen(_, _)
StrsOfLen(chars, n) ==
    IF n = 0 THEN {<<>>}
    ELSE {<<c>> \o s : c \in chars, s \in StrsOfLen(chars, n - 1)}

Tags == UNION {StrsOfLen(TagChars, n) : n \in 0..MaxTagLen}

DictKeys == {O, <<"P">>, <<"B", "-">>, <<"B", "-", "P">>}
DictValues == {O, <<"Q">>}
Dictionaries == UNION {[K -> DictValues] : K \in SUBSET DictKeys}

Idle == [op |-> "idle"]

InitTag ==
    /\ call \in [op : {"translate_tag"}, tag : Tags, dictionary : Dictionaries,
                 ignore_unknown : BOOLEAN, done : {FALSE}, ret : {<<>>}]
    /\ sample = None
    /\ record = None
    /\ persisted = None
    /\ out = None
    /\ loads = 0
    /\ spacy_model = None

TranslateTagCall ==
    /\ call.op = "translate_tag"
    /\ ~call.done
    /\ call' = [call EXCEPT
                  !.done = TRUE,
                  !.ret = translate_tag(call.tag, call.dictionary,
                                        call.ignore_unknown)]
    /\ UNCHANGED <<sample, record, persisted, out, loads, spacy_model>>

NextTag == TranslateTagCall

SpecTag == InitTag /\ [][NextTag]_vars

---------------------------------------------------------------------------
(* C1 as stated: translate_tag("O", D, True) returns "O" for every          *)
(* dictionary D, dictionaries with the key "O" included.                   *)
C1_Original ==
    (call.op = "translate_tag" /\ call.done /\ call.tag = O
        /\ call.ignore_unknown)
    => call.ret = O

(* C1 as amended: translate_tag("O", D, True) returns "O" for every         *)
(* dictionary D without the key "O", and D["O"] for one that has it.       *)
C1_SentinelUnlessKey ==
    (call.op = "translate_tag" /\ call.done /\ call.tag = O
        /\ call.ignore_unknown)
    => call.ret = (IF O \in DOMAIN call.dictionary
                   THEN call.dictionary[O] ELSE O)

C1_Witness ==
    /\ call.op = "translate_tag" /\ call.done
    /\ call.tag = O /\ call.ignore_unknown
    /\ DOMAIN call.dictionary = {<<"P">>, <<"B", "-">>}
    /\ call.ret = O

\* The reference of C2, from the claim's words.
C2_Reference(t, D, ignore_unknown) ==
    LET has_prefix == Len(t) > 2 /\ t[2] = "-"
        suffix == IF has_prefix THEN SubSeq(t, 3, Len(t)) ELSE t
    IN  IF suffix \in DOMAIN D
        THEN (IF has_prefix THEN <<t[1], t[2]>> \o D[suffix] ELSE D[suffix])
        ELSE (IF ignore_unknown THEN <<"O">> ELSE t)

(* C2: translate_tag never raises and equals the reference, for every tag, *)
(* dictionary and flag; tags of one or two characters are never            *)
(* prefix-stripped.                                                        *)
C2_TranslateTagReference ==
    (call.op = "translate_tag" /\ call.done)
    => /\ call.ret \notin Exceptions
       /\ call.ret = C2_Reference(call.tag, call.dictionary, call.ignore_unknown)
       /\ (Len(call.tag) <= 2 /\ call.tag \in DOMAIN call.dictionary)
            => call.ret = call.dictionary[call.tag]

C2_Witness ==
    /\ call.op = "translate_tag" /\ call.done
    /\ call.tag = <<"B", "-">>
    /\ call.dictionary = (<<"B", "-">> :> <<"Q">>)
    /\ call.ret = <<"Q">>

---------------------------------------------------------------------------
(* Span.                                                                   *)

Span(entity_type, entity_value, start_position, end_position) ==
    [py_type |-> "Span",
     entity_type |-> entity_type,
     entity_value |-> entity_value,
     start_position |-> start_position,
     end_position |-> end_position]

min(a, b) == IF a <= b THEN a ELSE b
max(a, b) == IF a >= b THEN a ELSE b

\* The bug of leaving out the test for ranges that do not overlap.
intersect_unguarded(self, other, ignore_entity_type) ==
    IF ~ignore_entity_type /\ self.entity_type # other.entity_type
    THEN 0
    ELSE min(self.end_position, other.end_position)
         - max(self.start_position, other.start_position)

intersect(self, other, ignore_entity_type) ==
    IF \/ self.end_position < other.start_position
       \/ other.end_position < self.start_position
    THEN 0
    ELSE IF ~ignore_entity_type /\ self.entity_type # other.entity_type
    THEN 0
    ELSE min(self.end_position, other.end_position)
         - max(self.start_position, other.start_position)

\* The spans handed to intersect: every range with start <= end <= MaxPos.
JOE == <<"J", "o", "e">>

RangeSpans ==
    {sp \in {Span(t, JOE, s, e) : t \in {PERSON, GPE},
                                  s \in 0..MaxPos, e \in 0..MaxPos} :
        sp.start_position <= sp.end_position}

InitSpan ==
    /\ call \in [op : {"intersect"},
                 self : RangeSpans, other : RangeSpans,
                 ignore_entity_type : BOOLEAN, done : {FALSE}, ret : {0}]
    /\ sample = None
    /\ record = None
    /\ persisted = None
    /\ out = None
    /\ loads = 0
    /\ spacy_model = None

IntersectCall ==
    /\ call.op = "intersect"
    /\ ~call.done
    /\ call' = [call EXCEPT
                  !.done = TRUE,
                  !.ret = intersect(call.self, call.other,
                                    call.ignore_entity_type)]
    /\ UNCHANGED <<sample, record, persisted, out, loads, spacy_model>>

NextSpan == IntersectCall

SpecSpan == InitSpan /\ [][NextSpan]_vars

\* The characters of a span: the half-open interval [start, end).
C5_Chars(sp) == {i \in 0..MaxPos + 1 : sp.start_position <= i /\ i < sp.end_position}

(* C5: for spans with start <= end, intersect returns the number of        *)
(* characters the half-open intervals share: 0 for disjoint intervals      *)
(* (touching ones included), 0 when entity types count and differ, and     *)
(* otherwise min(end) - max(start), positive for overlapping ranges and    *)
(* never negative.                                                         *)
C5_IntersectSharedChars ==
    (call.op = "intersect" /\ call.done)
    => LET a == call.self
           b == call.other
           shared == C5_Chars(a) \cap C5_Chars(b)
           typed_out == ~call.ignore_entity_type /\ a.entity_type # b.entity_type
           lo == IF a.start_position >= b.start_position
                 THEN a.start_position ELSE b.start_position
           hi == IF a.end_position <= b.end_position
                 THEN a.end_position ELSE b.end_position
       IN  /\ call.ret >= 0
           /\ call.ret = (IF typed_out THEN 0 ELSE Cardinality(shared))
           /\ shared = {} => call.ret = 0
           /\ (a.end_position = b.start_position
                 \/ b.end_position = a.start_position) => call.ret = 0
           /\ (shared # {} /\ ~typed_out) => (call.ret = hi - lo /\ call.ret > 0)

C5_Witness ==
    /\ call.op = "intersect" /\ call.done
    /\ call.self.entity_type # call.other.entity_type
    /\ call.ignore_entity_type
    /\ call.self.start_position < call.other.start_position
    /\ call.other.start_position < call.self.end_position
    /\ call.self.end_position < call.other.end_position
    /\ call.ret = call.self.end_position - call.other.start_position
    /\ call.ret > 0

---------------------------------------------------------------------------
(* SimpleToken and InputSample.                                            *)

SimpleSpacyExtensions(kwargs) ==
    [py_type |-> "SimpleSpacyExtensions", dict |-> kwargs]

\* SimpleToken.__init__: spacy_extensions None gives an empty extension bag;
\* keyword arguments that are no parameter are kept in params.
SimpleToken(text, idx, tag_, pos_, dep_, lemma_, spacy_extensions, kwargs) ==
    [py_type |-> "SimpleToken",
     text |-> text, idx |-> idx,
     tag_ |-> tag_, pos_ |-> pos_, dep_ |-> dep_, lemma_ |-> lemma_,
     extensions |-> IF spacy_extensions = None
                    THEN SimpleSpacyExtensions(<<>>)
                    ELSE spacy_extensions,
     params |-> kwargs]

\* A dictionary passed where the parameter may also be None.
dict(items) == [py_type |-> "dict", items |-> items]

---------------------------------------------------------------------------
(* InputSample.translate_tags (static) and InputSample.bilou_to_bio.       *)

\* The bug of leaving out the tags the dictionary does not know.
RECURSIVE translate_tags_drop_unknown(_, _, _)
translate_tags_drop_unknown(tags, dictionary, ignore_unknown) ==
    IF tags = <<>> THEN <<>>
    ELSE LET tag == Head(tags)
             rest == translate_tags_drop_unknown(Tail(tags), dictionary,
                                                 ignore_unknown)
         IN  IF translate_tag(tag, dictionary, FALSE) = tag /\ ignore_unknown
             THEN rest
             ELSE <<translate_tag(tag, dictionary, ignore_unknown)>> \o rest

\* The list comprehension over tags, first tag first.
RECURSIVE translate_tags(_, _, _)
translate_tags(tags, dictionary, ignore_unknown) ==
    IF tags = <<>> THEN <<>>
    ELSE <<translate_tag(Head(tags), dictionary, ignore_unknown)>>
         \o translate_tags(Tail(tags), dictionary, ignore_unknown)

\* One pass of the loop body of bilou_to_bio: the new tag of `tag`.
bilou_to_bio_new_tag(tag) ==
    LET has_prefix == Len(tag) > 2 /\ Index(tag, 1) = "-"
    IN  IF has_prefix
        THEN IF Index(tag, 0) = "U" THEN <<"B">> \o SliceFrom(tag, 1)
             ELSE IF Index(tag, 0) = "L" THEN <<"I">> \o SliceFrom(tag, 1)
             ELSE tag
        ELSE tag

\* The loop of bilou_to_bio: new_tags grows by one tag per tag read.
RECURSIVE bilou_to_bio_loop(_, _)
bilou_to_bio_loop(tags, new_tags) ==
    IF tags = <<>> THEN new_tags
    ELSE bilou_to_bio_loop(Tail(tags),
                           Append(new_tags, bilou_to_bio_new_tag(Head(tags))))

\* The bug of rewriting L- to B- as well (both BILOU-only prefixes to B-).
bilou_to_bio_all_begin(self) ==
    [self EXCEPT !.tags =
        [i \in 1..Len(self.tags) |->
            LET tag == self.tags[i]
            IN  IF Len(tag) > 2 /\ tag[2] = "-" /\ tag[1] \in {"U", "L"}
                THEN <<"B">> \o SliceFrom(tag, 1) ELSE tag]]

\* The bug of writing "U" where "I" is meant: L- becomes U-.
bilou_to_bio_last_to_unit(self) ==
    [self EXCEPT !.tags =
        [i \in 1..Len(self.tags) |->
            LET tag == self.tags[i]
            IN  IF Len(tag) > 2 /\ tag[2] = "-" /\ tag[1] = "U"
                THEN <<"B">> \o SliceFrom(tag, 1)
                ELSE IF Len(tag) > 2 /\ tag[2] = "-" /\ tag[1] = "L"
                THEN <<"U">> \o SliceFrom(tag, 1) ELSE tag]]

\* InputSample.bilou_to_bio: the sample after the call.
bilou_to_bio(self) ==
    [self EXCEPT !.tags = bilou_to_bio_loop(self.tags, <<>>)]

---------------------------------------------------------------------------
(* InputSample.translate_input_sample_tags.                                *)

\* The loop over self.spans: each span's entity_value is looked up in
\* PRESIDIO_SPACY_ENTITIES, whatever dictionary was passed.
translate_span(span, ignore_unknown) ==
    IF span.entity_value \in DOMAIN PRESIDIO_SPACY_ENTITIES
    THEN [span EXCEPT !.entity_value = PRESIDIO_SPACY_ENTITIES[span.entity_value]]
    ELSE IF ignore_unknown
    THEN [span EXCEPT !.entity_value = O]
    ELSE span

\* The sample after the call; translate_tag never raises, so the
\* comprehension of translate_tags always completes.
translate_input_sample_tags(self, dictionary, ignore_unknown) ==
    LET used == IF dictionary = None
                THEN PRESIDIO_SPACY_ENTITIES ELSE dictionary.items
    IN  [self EXCEPT
            !.tags = translate_tags(self.tags, used, ignore_unknown),
            !.spans = [i \in 1..Len(self.spans) |->
                          translate_span(self.spans[i], ignore_unknown)]]

---------------------------------------------------------------------------
(* The samples whose tags are mutated in place.                            *)

FOO == <<"F", "O", "O">>
PER == <<"P", "E", "R">>

\* The text "Joe CITY" and its tokens; a sample holds the first n of them.
SampleTokens ==
    <<SimpleToken(JOE, 0, None, None, None, None, None, <<>>),
      SimpleToken(CITY, 4, None, None, None, None, None, <<>>),
      SimpleToken(<<"!">>, 8, None, None, None, None, None, <<>>)>>

SampleText(n) ==
    IF n = 0 THEN <<>>
    ELSE IF n = 1 THEN JOE
    ELSE IF n = 2 THEN JOE \o <<" ">> \o CITY
    ELSE JOE \o <<" ">> \o CITY \o <<"!">>

\* Tags of every shape: the sentinel, BILOU and BIO prefixes, a bare type,
\* a two-character and a one-character tag that look like prefixes.
SampleTags ==
    {O,
     <<"U", "-">> \o PERSON, <<"L", "-">> \o PERSON,
     <<"B", "-">> \o LOCATION, <<"I", "-">> \o FOO,
     PERSON, <<"U", "-">>, <<"L">>}

SampleSpans == {Span(PERSON, JOE, 0, 3), Span(LOCATION, CITY, 4, 8)}

CustomDictionary == (PERSON :> PER) @@ (LOCATION :> LOC)

\* The dictionary argument: left out (None), or supplied by the caller.
SampleDictionaries ==
    {None, dict(SPACY_PRESIDIO_ENTITIES), dict(CustomDictionary)}

RECURSIVE SeqsOfLen(_, _)
SeqsOfLen(S, n) ==
    IF n = 0 THEN {<<>>}
    ELSE {<<x>> \o rest : x \in S, rest \in SeqsOfLen(S, n - 1)}

SeqsUpTo(S, n) == UNION {SeqsOfLen(S, k) : k \in 0..n}

InputSample(full_text, masked, spans, metadata, template_id, tokens, tags) ==
    [py_type |-> "InputSample",
     full_text |-> full_text,
     masked |-> masked,
     spans |-> spans,
     metadata |-> metadata,
     template_id |-> template_id,
     tokens |-> tokens,
     tags |-> tags]

Samples ==
    {InputSample(SampleText(n), None, spans, None, None,
                 SubSeq(SampleTokens, 1, n), tags) :
        n \in 0..min(MaxTokens, Len(SampleTokens)),
        spans \in SeqsUpTo(SampleSpans, MaxSpans),
        tags \in SeqsUpTo(SampleTags, MaxTokens)}

\* Tags and tokens in step, and every span inside the text.
Init ==
    /\ sample \in {sm \in Samples :
                     /\ Len(sm.tags) = Len(sm.tokens)
                     /\ \A i \in 1..Len(sm.spans) :
                           sm.spans[i].end_position <= Len(sm.full_text)}
    /\ call = Idle
    /\ record = None
    /\ persisted = None
    /\ out = None
    /\ loads = 0
    /\ spacy_model = None

BilouToBio ==
    /\ sample' = bilou_to_bio(sample)
    /\ call' = [op |-> "bilou_to_bio", self |-> sample,
                twice |-> call.op = "bilou_to_bio"]
    /\ UNCHANGED <<record, persisted, out, loads, spacy_model>>

TranslateInputSampleTags ==
    \E dictionary \in SampleDictionaries, ignore_unknown \in BOOLEAN :
        /\ sample' = translate_input_sample_tags(sample, dictionary,
                                                 ignore_unknown)
        /\ call' = [op |-> "translate_input_sample_tags", self |-> sample,
                    dictionary |-> dictionary,
                    ignore_unknown |-> ignore_unknown]
        /\ UNCHANGED <<record, persisted, out, loads, spacy_model>>

Next == BilouToBio \/ TranslateInputSampleTags

Spec == Init /\ [][Next]_vars

---------------------------------------------------------------------------
\* The tag C3 gives for a tag, from the claim's words.
C3_Reference(t) ==
    IF Len(t) > 2 /\ t[2] = "-"
    THEN (IF t[1] = "U" THEN <<"B", "-">> \o SubSeq(t, 3, Len(t))
          ELSE IF t[1] = "L" THEN <<"I", "-">> \o SubSeq(t, 3, Len(t))
          ELSE t)
    ELSE t

(* C3: bilou_to_bio leaves a tag sequence of the same length and order in  *)
(* which U-TYPE became B-TYPE, L-TYPE became I-TYPE and every other tag    *)
(* ("O", B-, I-, unprefixed and short tags) is unchanged.                  *)
C3_BilouToBioRewrites ==
    call.op = "bilou_to_bio"
    => /\ Len(sample.tags) = Len(call.self.tags)
       /\ \A i \in 1..Len(call.self.tags) :
              sample.tags[i] = C3_Reference(call.self.tags[i])

C3_Witness ==
    /\ call.op = "bilou_to_bio"
    /\ call.self.tags = <<(<<"L", "-">> \o PERSON), <<"U", "-">>>>
    /\ sample.tags = <<(<<"I", "-">> \o PERSON), <<"U", "-">>>>

(* C4: bilou_to_bio is idempotent: applied a second time in a row, it      *)
(* leaves the tags as the first application left them.                     *)
C4_BilouToBioIdempotent ==
    (call.op = "bilou_to_bio" /\ call.twice)
    => sample.tags = call.self.tags

\* B-PERSON and I-PERSON are tags no sample starts with: the first of the two
\* applications wrote them.
C4_Witness ==
    /\ call.op = "bilou_to_bio" /\ call.twice
    /\ sample.tags = <<(<<"B", "-">> \o PERSON), (<<"I", "-">> \o PERSON)>>

\* The dictionary a call of translate_input_sample_tags translates with.
UsedDictionary(dictionary) ==
    IF dictionary = None THEN PRESIDIO_SPACY_ENTITIES ELSE dictionary.items

(* C6: a sample that starts with len(tags) == len(tokens) keeps it through *)
(* every sequence of bilou_to_bio and translate_input_sample_tags calls;   *)
(* translate_tags gives a sequence of its input's length whose i-th        *)
(* element is translate_tag of the i-th input tag.                         *)
C6_TagsMatchTokens ==
    /\ Len(sample.tags) = Len(sample.tokens)
    /\ call.op = "translate_input_sample_tags"
       => /\ Len(sample.tags) = Len(call.self.tags)
          /\ \A i \in 1..Len(call.self.tags) :
                sample.tags[i] =
                    translate_tag(call.self.tags[i],
                                  UsedDictionary(call.dictionary),
                                  call.ignore_unknown)

\* A translation after a scheme conversion (B-PERSON is written by
\* bilou_to_bio alone) that maps an unknown tag to "O".
C6_Witness ==
    /\ call.op = "translate_input_sample_tags"
    /\ call.ignore_unknown
    /\ call.dictionary = dict(CustomDictionary)
    /\ call.self.tags = <<(<<"B", "-">> \o PERSON), <<"U", "-">>>>
    /\ sample.tags = <<(<<"B", "-">> \o PER), O>>
    /\ Len(sample.tokens) = 2

(* C7 as stated: bilou_to_bio and translate_input_sample_tags change only  *)
(* the tags: every span (entity_type, entity_value, start_position,        *)
(* end_position), the tokens and full_text are as before the call.         *)
C7_OnlyTagsChange ==
    call.op \in {"bilou_to_bio", "translate_input_sample_tags"}
    => /\ Len(sample.spans) = Len(call.self.spans)
       /\ \A i \in 1..Len(call.self.spans) :
            /\ sample.spans[i].entity_type = call.self.spans[i].entity_type
            /\ sample.spans[i].entity_value = call.self.spans[i].entity_value
            /\ sample.spans[i].start_position = call.self.spans[i].start_position
            /\ sample.spans[i].end_position = call.self.spans[i].end_position
       /\ sample.tokens = call.self.tokens
       /\ sample.full_text = call.self.full_text

(* C9 as stated: translate_input_sample_tags rewrites each span's type     *)
(* through the dictionary D it applies to the tags: entity_type t becomes  *)
(* D[t] when t is a key of D, and no other dictionary rewrites the span.   *)
C9_SpansThroughSameDictionary ==
    call.op = "translate_input_sample_tags"
    => \A i \in 1..Len(call.self.spans) :
          LET D == UsedDictionary(call.dictionary)
              before == call.self.spans[i]
          IN  /\ before.entity_type \in DOMAIN D
                    => sample.spans[i].entity_type = D[before.entity_type]
              /\ sample.spans[i].entity_value = before.entity_value

---------------------------------------------------------------------------
(* Serialisation: Span.from_json, SimpleToken.from_json / to_dict,         *)
(* InputSample.__init__, from_json and to_dict.                            *)
(* A call that can raise returns [raised, ret] (raised = "" when it        *)
(* returned), with the dict it was given as the call left it.              *)

\* A value that ** can unpack and `in` can search: a dict, not an object.
IsMapping(v) == "py_type" \notin DOMAIN v

Get(kwargs, key, default) ==
    IF key \in DOMAIN kwargs THEN kwargs[key] ELSE default

Restrict(f, keys) == [k \in DOMAIN f \cap keys |-> f[k]]

SpanParams == {"entity_type", "entity_value", "start_position", "end_position"}

\* Span.from_json: cls(**data).
Span_from_json(data) ==
    IF ~IsMapping(data) \/ DOMAIN data # SpanParams
    THEN [raised |-> "TypeError", ret |-> None]
    ELSE [raised |-> "",
          ret |-> Span(data.entity_type, data.entity_value,
                       data.start_position, data.end_position)]

\* span.__dict__: the attributes of a Span as a dict.
Span___dict__(span) == Restrict(span, SpanParams)

TokenParams ==
    {"text", "idx", "tag_", "pos_", "dep_", "lemma_", "spacy_extensions"}

\* SimpleToken.from_json: `data` is the token dict as the call leaves it.
SimpleToken_from_json(data) ==
    IF ~IsMapping(data)
    THEN [raised |-> "TypeError", ret |-> None, data |-> data]
    ELSE LET with_ext ==
                 IF "_" \in DOMAIN data
                 THEN ("spacy_extensions" :> SimpleSpacyExtensions(data["_"]))
                      @@ data
                 ELSE data
         IN  IF ~({"text", "idx"} \subseteq DOMAIN with_ext)
             THEN [raised |-> "TypeError", ret |-> None, data |-> with_ext]
             ELSE [raised |-> "",
                   ret |-> SimpleToken(
                       with_ext.text, with_ext.idx,
                       Get(with_ext, "tag_", None), Get(with_ext, "pos_", None),
                       Get(with_ext, "dep_", None), Get(with_ext, "lemma_", None),
                       Get(with_ext, "spacy_extensions", None),
                       Restrict(with_ext, DOMAIN with_ext \ TokenParams)),
                   data |-> with_ext]

\* SimpleToken.from_spacy_token: a SimpleToken is returned as it is.  The
\* samples of this model hold no spaCy Token; any other value gives None.
from_spacy_token(token) ==
    IF token.py_type = "SimpleToken" THEN token ELSE None

SimpleToken_to_dict(self) ==
    [text |-> self.text, idx |-> self.idx, tag_ |-> self.tag_,
     pos_ |-> self.pos_, dep_ |-> self.dep_, lemma_ |-> self.lemma_]
    @@ ("_" :> self.extensions.dict)

\* tokenize of presidio_evaluator: the words of the text with their offsets.
RECURSIVE tokenize_from(_, _, _)
tokenize_from(text, i, word) ==
    LET flush == IF word = <<>> THEN <<>>
                 ELSE <<SimpleToken(word, i - 1 - Len(word), None, None, None,
                                    None, None, <<>>)>>
    IN  IF i > Len(text) + 1 THEN <<>>
        ELSE IF i = Len(text) + 1 \/ text[i] = " "
        THEN flush \o tokenize_from(text, i + 1, <<>>)
        ELSE tokenize_from(text, i + 1, Append(word, text[i]))

tokenize(text) == tokenize_from(text, 1, <<>>)

\* span_to_tag of presidio_evaluator: a token belongs to the first span that
\* holds its start offset; prefixes by the token's place in the span's run.
span_to_tag(scheme, spans, tokens) ==
    LET cover(i) ==
            IF i < 1 \/ i > Len(tokens) THEN 0
            ELSE LET js == {j \in 1..Len(spans) :
                               /\ spans[j].start_position <= tokens[i].idx
                               /\ tokens[i].idx < spans[j].end_position}
                 IN  IF js = {} THEN 0
                     ELSE CHOOSE j \in js : \A k \in js : j <= k
        label(i) ==
            LET j == cover(i)
                first == cover(i - 1) # j
                last == cover(i + 1) # j
                bilou == scheme \in {"BILOU", "BILUO"}
            IN  IF j = 0 THEN O
                ELSE IF scheme = "IO" THEN spans[j].entity_type
                ELSE IF bilou /\ first /\ last
                THEN <<"U", "-">> \o spans[j].entity_type
                ELSE IF first THEN <<"B", "-">> \o spans[j].entity_type
                ELSE IF bilou /\ last
                THEN <<"L", "-">> \o spans[j].entity_type
                ELSE <<"I", "-">> \o spans[j].entity_type
    IN  [i \in 1..Len(tokens) |-> label(i)]

\* InputSample.get_tags: (tokens, labels).
get_tags(full_text, spans, scheme) ==
    LET tokens == tokenize(full_text)
    IN  <<tokens, span_to_tag(scheme, spans, tokens)>>

InitParams ==
    {"full_text", "spans", "masked", "tokens", "tags", "scheme", "metadata",
     "template_id"}

\* InputSample.__init__ on keyword arguments: a missing tags, tokens or
\* spans is the empty list; template_id and metadata are None in this model
\* unless given, and `not template_id` is template_id being None.
InputSample___init__(kwargs, create_tags_from_span) ==
    LET full_text == kwargs.full_text
        spans == Get(kwargs, "spans", <<>>)
        metadata == Get(kwargs, "metadata", None)
        given_id == Get(kwargs, "template_id", None)
        template_id ==
            IF given_id = None /\ metadata # None
            THEN Get(metadata, "Template#", None)
            ELSE given_id
        derived == get_tags(full_text, spans, Get(kwargs, "scheme", "IO"))
        tokens == IF create_tags_from_span THEN derived[1]
                  ELSE Get(kwargs, "tokens", <<>>)
        tags == IF create_tags_from_span THEN derived[2]
                ELSE Get(kwargs, "tags", <<>>)
    IN  InputSample(full_text, Get(kwargs, "masked", None), spans, metadata,
                    template_id, tokens, tags)

\* The comprehension of line 277: the spans built, or the first exception.
Spans_from_json(span_list) ==
    LET results == [i \in 1..Len(span_list) |-> Span_from_json(span_list[i])]
    IN  IF \E i \in 1..Len(span_list) : results[i].raised # ""
        THEN [raised |-> "TypeError", ret |-> None]
        ELSE [raised |-> "",
              ret |-> [i \in 1..Len(span_list) |-> results[i].ret]]

\* The comprehension of line 279: the tokens built, or the first exception;
\* `left` is the list read, whose dicts up to the failing one were written.
Tokens_from_json(token_list) ==
    LET results == [i \in 1..Len(token_list) |->
                       SimpleToken_from_json(token_list[i])]
        bad == {i \in 1..Len(token_list) : results[i].raised # ""}
        stop == IF bad = {} THEN Len(token_list)
                ELSE CHOOSE i \in bad : \A k \in bad : i <= k
        left == [i \in 1..Len(token_list) |->
                    IF i <= stop THEN results[i].data ELSE token_list[i]]
    IN  IF bad # {}
        THEN [raised |-> "TypeError", ret |-> None, left |-> left]
        ELSE [raised |-> "",
              ret |-> [i \in 1..Len(token_list) |-> results[i].ret],
              left |-> left]

\* InputSample.from_json(data): [raised, ret, data], data as the call left it.
from_json_with(data, create_tags_from_span) ==
    LET spans == IF "spans" \in DOMAIN data
                 THEN Spans_from_json(data.spans)
                 ELSE [raised |-> "", ret |-> <<>>]
        data1 == IF "spans" \in DOMAIN data /\ spans.raised = ""
                 THEN [data EXCEPT !.spans = spans.ret] ELSE data
        tokens == IF "tokens" \in DOMAIN data1
                  THEN Tokens_from_json(data1.tokens)
                  ELSE [raised |-> "", ret |-> <<>>, left |-> <<>>]
        data2 == IF "tokens" \in DOMAIN data1
                 THEN [data1 EXCEPT !.tokens =
                          IF tokens.raised = "" THEN tokens.ret ELSE tokens.left]
                 ELSE data1
    IN  IF spans.raised # ""
        THEN [raised |-> spans.raised, ret |-> None, data |-> data]
        ELSE IF tokens.raised # ""
        THEN [raised |-> tokens.raised, ret |-> None, data |-> data2]
        ELSE IF \/ ~(DOMAIN data2 \subseteq InitParams)
                \/ "full_text" \notin DOMAIN data2
        THEN [raised |-> "TypeError", ret |-> None, data |-> data2]
        ELSE [raised |-> "",
              ret |-> InputSample___init__(data2, create_tags_from_span),
              data |-> data2]

\* The bug of leaving create_tags_from_span at its default, True.
from_json_default_flag(data) == from_json_with(data, TRUE)

\* cls(**data, create_tags_from_span=False)
from_json(data) == from_json_with(data, FALSE)

to_dict(self) ==
    [full_text |-> self.full_text,
     masked |-> self.masked,
     spans |-> [i \in 1..Len(self.spans) |-> Span___dict__(self.spans[i])],
     tokens |-> [i \in 1..Len(self.tokens) |->
                    SimpleToken_to_dict(from_spacy_token(self.tokens[i]))],
     tags |-> self.tags,
     template_id |-> self.template_id,
     metadata |-> self.metadata]

---------------------------------------------------------------------------
(* The persisted records given to from_json.                               *)

NNP == <<"N", "N", "P">>

\* A token as to_dict writes it, and one with text and offset alone.
TokenDicts(i) ==
    {[text |-> SampleTokens[i].text, idx |-> SampleTokens[i].idx],
     [text |-> SampleTokens[i].text, idx |-> SampleTokens[i].idx,
      tag_ |-> NNP, pos_ |-> None, dep_ |-> None, lemma_ |-> None]
     @@ ("_" :> [is_sent_start |-> i = 1])}

RECURSIVE TokenDictLists(_)
TokenDictLists(n) ==
    IF n = 0 THEN {<<>>}
    ELSE IF n > Len(SampleTokens) THEN {}
    ELSE {Append(front, t) : front \in TokenDictLists(n - 1), t \in TokenDicts(n)}

SpanDicts == {Span___dict__(sp) : sp \in SampleSpans}

RecordTags == {O, PERSON, <<"U", "-">> \o PERSON}

\* Records with every key to_dict writes, and records that leave out the
\* keys from_json tests for ("spans", "tokens").
Records ==
    LET full ==
            {[full_text |-> SampleText(n), masked |-> None, spans |-> spans,
              tokens |-> tokens, tags |-> tags, template_id |-> None,
              metadata |-> metadata] :
                n \in 0..min(MaxTokens, Len(SampleTokens)),
                spans \in SeqsUpTo(SpanDicts, MaxSpans),
                tokens \in UNION {TokenDictLists(k) : k \in 0..MaxTokens},
                tags \in SeqsUpTo(RecordTags, MaxTokens),
                metadata \in {None, ("Template#" :> 1)}}
        matching == {r \in full :
                        /\ Len(r.tokens) = Len(r.tags)
                        /\ r.full_text = SampleText(Len(r.tokens))
                        /\ \A i \in 1..Len(r.spans) :
                              r.spans[i].end_position <= Len(r.full_text)}
    IN  matching
        \cup {Restrict(r, DOMAIN r \ {"spans"}) : r \in matching}
        \cup {Restrict(r, DOMAIN r \ {"tokens", "tags"}) : r \in matching}

InitJson ==
    /\ record \in Records
    /\ persisted = record
    /\ sample = None
    /\ out = None
    /\ call = Idle
    /\ loads = 0
    /\ spacy_model = None

\* sample = InputSample.from_json(record): a raise leaves `sample` as it was.
FromJson ==
    /\ loads < MaxLoads
    /\ LET r == from_json(record)
       IN  /\ record' = r.data
           /\ sample' = IF r.raised = "" THEN r.ret ELSE sample
           /\ call' = [op |-> "from_json", data |-> record, earlier |-> sample,
                       raised |-> r.raised, ret |-> r.ret]
    /\ loads' = loads + 1
    /\ UNCHANGED <<persisted, out, spacy_model>>

\* out = sample.to_dict()
ToDict ==
    /\ sample # None
    /\ out' = to_dict(sample)
    /\ call' = [op |-> "to_dict", self |-> sample]
    /\ UNCHANGED <<sample, record, persisted, loads, spacy_model>>

NextJson == FromJson \/ ToDict

SpecJson == InitJson /\ [][NextJson]_vars

C10_FromJsonLeavesRecord ==
    call.op = "from_json"
    => /\ record = call.data
       /\ record = persisted
       /\ call.earlier # None => (call.raised = "" /\ call.ret = call.earlier)

---------------------------------------------------------------------------
(* SpacyModel.predict (models/spacy_model.py).                             *)

SpacyModel(translate_to_spacy_entities) ==
    [py_type |-> "SpacyModel",
     translate_to_spacy_entities |-> translate_to_spacy_entities]

\* The documents self.model(full_text) can return: one ent_type_ per token,
\* "" for a token outside every entity.  The pipeline is not in these
\* sources; any document of up to MaxDocLen tokens is a possible answer.
Docs == SeqsUpTo({<<>>, PERSON}, MaxDocLen)

\* SpacyModel.get_tags_from_doc (static).
get_tags_from_doc(doc) ==
    [i \in 1..Len(doc) |-> IF doc[i] # <<>> THEN doc[i] ELSE O]

\* SpacyModel.predict(sample) with `doc` the pipeline's answer: the sample
\* after the call, the tags returned and whether the mismatch is printed.
predict(self, smp, doc) ==
    [sample |-> IF self.translate_to_spacy_entities
                THEN translate_input_sample_tags(smp, None, TRUE)
                ELSE smp,
     ret |-> get_tags_from_doc(doc),
     mismatch |-> Len(doc) # Len(smp.tokens)]

InitPredict ==
    /\ sample \in {sm \in Samples :
                     /\ Len(sm.tags) = Len(sm.tokens)
                     /\ \A i \in 1..Len(sm.spans) :
                           sm.spans[i].end_position <= Len(sm.full_text)}
    /\ spacy_model \in {SpacyModel(b) : b \in BOOLEAN}
    /\ call = Idle
    /\ record = None
    /\ persisted = None
    /\ out = None
    /\ loads = 0

\* tags = spacy_model.predict(sample); `calls` counts the calls made on the
\* sample and `first` is the sample as the first of them left it.
Predict ==
    \E doc \in Docs :
        LET r == predict(spacy_model, sample, doc)
            calls == IF call.op = "predict" THEN call.calls + 1 ELSE 1
        IN  /\ calls <= MaxPredicts
            /\ sample' = r.sample
            /\ call' = [op |-> "predict", self |-> sample, calls |-> calls,
                        first |-> IF calls = 1 THEN r.sample ELSE call.first,
                        ret |-> r.ret, mismatch |-> r.mismatch]
            /\ UNCHANGED <<record, persisted, out, loads, spacy_model>>

NextPredict == Predict

SpecPredict == InitPredict /\ [][NextPredict]_vars

(* C11: for a SpacyModel with translate_to_spacy_entities=True, every call *)
(* of predict(sample) after the first leaves sample.tags and every span of *)
(* sample.spans exactly as the first call left them.                       *)
C11_PredictFixedPoint ==
    (call.op = "predict" /\ call.calls >= 2
        /\ spacy_model.translate_to_spacy_entities)
    => /\ sample.tags = call.first.tags
       /\ Len(sample.spans) = Len(call.first.spans)
       /\ \A i \in 1..Len(call.first.spans) :
              sample.spans[i] = call.first.spans[i]
       /\ sample.tags = call.self.tags
       /\ sample.spans = call.self.spans

\* A third call on a sample whose first call rewrote both a tag
\* (B-LOCATION to B-GPE) and a span's value ("Joe" to "O").
C11_Witness ==
    /\ call.op = "predict" /\ call.calls = 3
    /\ spacy_model.translate_to_spacy_entities
    /\ Len(sample.tags) >= 1 /\ Len(sample.spans) >= 1
    /\ sample.tags[1] = <<"B", "-">> \o GPE
    /\ sample.spans[1].entity_value = O
    /\ sample.spans[1].entity_type = PERSON

====
